---- MODULE Spec2Model ----
(***************************************************************************)
(* RAnimation easing library: src/src/animation/easing.jsx (the variant    *)
(* with shorthand methods, objects EasingHelpers and Easing) and           *)
(* src/unnamed/part_000 (the variant with function expressions, objects    *)
(* helpers, Easing and make, and the advance helper).                      *)
(*                                                                         *)
(* Numbers.  A JavaScript number is modelled by its exact real value, not  *)
(* by its double approximation: a triple <<n, d, e>> stands for            *)
(* (n/d) * pi^e, with d > 0, gcd(n, d) = 1 and e \in {0, 1}.  The          *)
(* non-finite doubles are <<1,0,0>> (Infinity), <<-1,0,0>> (-Infinity)     *)
(* and <<0,0,0>> (NaN); they follow the IEEE rules (0/0 = NaN, x/0 = Inf,  *)
(* Inf - Inf = NaN, sqrt of a negative number = NaN, comparisons with NaN  *)
(* are false).  A real value that is not of the form (n/d) * pi^e (cos of  *)
(* a non-special angle, 2^(1/3), e^1 ...) is the token Unrep, which every    *)
(* operation propagates; the actions below skip the inputs whose result    *)
(* is Unrep, so every state holds exactly computed values.  Rounding of      *)
(* doubles, overflow to Infinity and the sign of zero are not modelled.    *)
(***************************************************************************)
EXTENDS Integers, Sequences, FiniteSets, TLC

VARIABLES fJ, fP, arg, rJ, rP, called, step, anim, now, dt

vars == <<fJ, fP, arg, rJ, rP, called, step, anim, now, dt>>

----------------------------------------------------------------------------
(* Exact arithmetic on number values *)

Abs(x) == IF x < 0 THEN -x ELSE x

Sgn(x) == IF x < 0 THEN -1 ELSE IF x = 0 THEN 0 ELSE 1

RECURSIVE GCD(_, _)
GCD(a, b) == IF b = 0 THEN a ELSE GCD(b, a % b)

NaN == <<0, 0, 0>>

PosInf == <<1, 0, 0>>

NegInf == <<-1, 0, 0>>

Unrep == <<0, 0, 1>>

\* (n/d) * pi^e in lowest terms, d # 0
Mk(n, d, e) ==
    IF n = 0 THEN <<0, 1, 0>>
    ELSE LET g == GCD(Abs(n), Abs(d))
             s == IF d < 0 THEN -1 ELSE 1
         IN  <<(s * n) \div g, (s * d) \div g, e>>

Q(n, d) == Mk(n, d, 0)

Z(n) == <<n, 1, 0>>

Zero == Z(0)

One == Z(1)

Two == Z(2)

Half == Q(1, 2)

IsNaN(x) == x = NaN

IsUnrep(x) == x = Unrep

IsInf(x) == x = PosInf \/ x = NegInf

\* isFinite(x) of an exactly computed value
IsFinite(x) == x[2] > 0

IsZero(x) == x[2] > 0 /\ x[1] = 0

\* the sign of a value that is neither NaN nor Unrep
Sign(x) == Sgn(x[1])

InfOf(s) == IF s < 0 THEN NegInf ELSE PosInf

Neg(x) == IF IsNaN(x) \/ IsUnrep(x) THEN x ELSE <<-x[1], x[2], x[3]>>

\* whether the product of two integers fits the model's integers
Fits(a, b) == a = 0 \/ b = 0 \/ Abs(a) <= 2147483647 \div Abs(b)

\* whether the sum of two integers fits the model's integers
SumFits(a, b) == Abs(a) <= 2147483647 - Abs(b)

\* a + b
Add(a, b) ==
    IF IsNaN(a) \/ IsNaN(b) THEN NaN
    ELSE IF IsUnrep(a) \/ IsUnrep(b) THEN Unrep
    ELSE IF IsInf(a) THEN (IF IsInf(b) /\ b # a THEN NaN ELSE a)
    ELSE IF IsInf(b) THEN b
    ELSE IF IsZero(a) THEN b
    ELSE IF IsZero(b) THEN a
    ELSE IF a[3] # b[3] THEN Unrep
    ELSE LET g == GCD(a[2], b[2])
             p == b[2] \div g
             q == a[2] \div g
         IN  IF Fits(a[1], p) /\ Fits(b[1], q) /\ Fits(q, b[2])
                /\ SumFits(a[1] * p, b[1] * q)
             THEN Mk(a[1] * p + b[1] * q, q * b[2], a[3])
             ELSE Unrep

\* a - b
Sub(a, b) == Add(a, Neg(b))

\* a * b
Mul(a, b) ==
    IF IsNaN(a) \/ IsNaN(b) THEN NaN
    ELSE IF IsUnrep(a) \/ IsUnrep(b) THEN Unrep
    ELSE IF IsInf(a) \/ IsInf(b)
         THEN (IF IsZero(a) \/ IsZero(b) THEN NaN ELSE InfOf(Sign(a) * Sign(b)))
    ELSE IF IsZero(a) \/ IsZero(b) THEN Zero
    ELSE IF a[3] + b[3] > 1 THEN Unrep
    ELSE LET g1 == GCD(Abs(a[1]), b[2])
             g2 == GCD(Abs(b[1]), a[2])
             n1 == a[1] \div g1
             n2 == b[1] \div g2
             d1 == a[2] \div g2
             d2 == b[2] \div g1
         IN  IF Fits(n1, n2) /\ Fits(d1, d2)
             THEN Mk(n1 * n2, d1 * d2, a[3] + b[3])
             ELSE Unrep

\* a / b
Div(a, b) ==
    IF IsNaN(a) \/ IsNaN(b) THEN NaN
    ELSE IF IsUnrep(a) \/ IsUnrep(b) THEN Unrep
    ELSE IF IsInf(b) THEN (IF IsInf(a) THEN NaN ELSE Zero)
    ELSE IF IsZero(b) THEN (IF IsZero(a) THEN NaN ELSE InfOf(Sign(a)))
    ELSE IF IsInf(a) THEN InfOf(Sign(a) * Sign(b))
    ELSE IF IsZero(a) THEN Zero
    ELSE IF a[3] < b[3] THEN Unrep
    ELSE Mul(<<a[1], a[2], a[3] - b[3]>>, <<Sgn(b[1]) * b[2], Abs(b[1]), 0>>)

\* n1/d1 < n2/d2 for d1, d2 > 0, by comparing the continued fractions
RECURSIVE LtQ(_, _, _, _)
LtQ(n1, d1, n2, d2) ==
    IF n1 \div d1 # n2 \div d2 THEN n1 \div d1 < n2 \div d2
    ELSE IF n2 % d2 = 0 THEN FALSE
    ELSE IF n1 % d1 = 0 THEN TRUE
    ELSE LtQ(d2, n2 % d2, d1, n1 % d1)

\* a < b (false when either is NaN)
Lt(a, b) ==
    IF IsNaN(a) \/ IsNaN(b) \/ IsUnrep(a) \/ IsUnrep(b) THEN FALSE
    ELSE IF IsInf(a) \/ IsInf(b)
         THEN (a # b /\ (a = NegInf \/ b = PosInf))
    ELSE LtQ(a[1], a[2], b[1], b[2])

\* a <= b
Le(a, b) == Lt(a, b) \/ (a = b /\ ~IsNaN(a) /\ ~IsUnrep(a))

\* a >= b
Ge(a, b) == Le(b, a)

\* a === b
StrictEq(a, b) == a = b /\ ~IsNaN(a) /\ ~IsUnrep(a)

\* a decimal literal of the source: digits / 10^scale
RECURSIVE Pow10(_)
Pow10(k) == IF k = 0 THEN 1 ELSE 10 * Pow10(k - 1)

Dec(digits, scale) == Q(digits, Pow10(scale))

----------------------------------------------------------------------------
(* The Math functions the library calls *)

Math_PI == <<1, 1, 1>>

\* Math.floor
Math_floor(x) ==
    IF IsFinite(x) THEN (IF x[3] = 0 THEN Z(x[1] \div x[2]) ELSE Unrep) ELSE x

\* Math.round: the nearest integer, halves rounded up
Math_round(x) == Math_floor(Add(x, Half))

\* the integer square root of n >= 0, by bisection of lo .. hi
RECURSIVE Isqrt(_, _, _)
Isqrt(n, lo, hi) ==
    IF hi - lo <= 1 THEN lo
    ELSE LET mid == (lo + hi) \div 2
         IN  IF mid * mid <= n THEN Isqrt(n, mid, hi) ELSE Isqrt(n, lo, mid)

Sqrt(n) == Isqrt(n, 0, 46341)

IsSquare(n) == Sqrt(n) * Sqrt(n) = n

\* Math.sqrt
Math_sqrt(x) ==
    IF IsNaN(x) \/ IsUnrep(x) THEN x
    ELSE IF x = PosInf THEN PosInf
    ELSE IF Sign(x) < 0 THEN NaN
    ELSE IF x[3] # 0 THEN Unrep
    ELSE IF IsSquare(x[1]) /\ IsSquare(x[2])
         THEN Q(Sqrt(x[1]), Sqrt(x[2]))
    ELSE Unrep

\* Math.sin: rational only at the multiples of pi/6 and pi/2 (Niven)
Math_sin(x) ==
    IF IsNaN(x) \/ IsInf(x) THEN NaN
    ELSE IF IsUnrep(x) THEN Unrep
    ELSE IF IsZero(x) THEN Zero
    ELSE IF x[3] = 0 THEN Unrep
    ELSE IF x[2] = 1 THEN Zero
    ELSE IF x[2] = 2 THEN (IF x[1] % 4 = 1 THEN One ELSE Z(-1))
    ELSE IF x[2] = 6 THEN (IF x[1] % 12 \in {1, 5} THEN Half ELSE Q(-1, 2))
    ELSE Unrep

\* Math.cos: rational only at the multiples of pi/3 and pi/2
Math_cos(x) ==
    IF IsNaN(x) \/ IsInf(x) THEN NaN
    ELSE IF IsUnrep(x) THEN Unrep
    ELSE IF IsZero(x) THEN One
    ELSE IF x[3] = 0 THEN Unrep
    ELSE IF x[2] = 1 THEN (IF x[1] % 2 = 0 THEN One ELSE Z(-1))
    ELSE IF x[2] = 2 THEN Zero
    ELSE IF x[2] = 3 THEN (IF x[1] % 6 \in {1, 5} THEN Half ELSE Q(-1, 2))
    ELSE Unrep

\* Math.exp: e^x is irrational for every rational x # 0
Math_exp(x) ==
    IF IsNaN(x) \/ IsUnrep(x) THEN x
    ELSE IF x = PosInf THEN PosInf
    ELSE IF x = NegInf THEN Zero
    ELSE IF IsZero(x) THEN One
    ELSE Unrep

\* b^k for an integer k >= 0, by squaring; beyond b^31 only the powers of
\* 0, 1 and -1 have a numerator and a denominator below 2^31
RECURSIVE IntPow(_, _)
IntPow(b, k) ==
    IF k = 0 THEN One
    ELSE IF k = 1 THEN b
    ELSE IF k > 31 /\ b \notin {Zero, One, Z(-1), NaN, PosInf, NegInf}
         THEN Unrep
    ELSE LET h == IntPow(b, k \div 2)
         IN  IF k % 2 = 0 THEN Mul(h, h) ELSE Mul(b, Mul(h, h))

\* Math.pow(b, x)
Math_pow(b, x) ==
    IF IsZero(x) THEN One
    ELSE IF IsNaN(x) \/ IsNaN(b) THEN NaN
    ELSE IF IsUnrep(x) \/ IsUnrep(b) THEN Unrep
    ELSE IF IsInf(x)
         THEN (IF IsInf(b) THEN (IF x = PosInf THEN PosInf ELSE Zero)
               ELSE IF Abs(b[1]) = b[2] /\ b[3] = 0 THEN NaN
               ELSE IF b[3] = 0 /\ (Abs(b[1]) > b[2]) = (x = PosInf) THEN PosInf
               ELSE IF b[3] = 0 THEN Zero
               ELSE Unrep)
    ELSE IF x[3] # 0 THEN Unrep
    ELSE IF IsInf(b)
         THEN (IF Sign(x) < 0 THEN Zero
               ELSE IF b = NegInf /\ x[2] = 1 /\ x[1] % 2 = 1 THEN NegInf
               ELSE PosInf)
    ELSE IF x[2] = 1
         THEN (IF x[1] > 0 THEN IntPow(b, x[1])
               ELSE Div(One, IntPow(b, -x[1])))
    ELSE IF Sign(b) < 0 THEN NaN
    ELSE IF IsZero(b) THEN (IF Sign(x) > 0 THEN Zero ELSE PosInf)
    ELSE IF b = One THEN One
    ELSE IF x[2] = 2
         THEN (IF x[1] > 0 THEN IntPow(Math_sqrt(b), x[1])
               ELSE Div(One, IntPow(Math_sqrt(b), -x[1])))
    ELSE Unrep

\* the k >= k0 with b^k <= x < b^(k+1), for rationals x >= b^k0 and b > 1
RECURSIVE LogUp(_, _, _)
LogUp(x, b, k) ==
    LET pw == IntPow(b, k + 1)
    IN  IF IsUnrep(pw) THEN Unrep
        ELSE IF Lt(x, pw) THEN Z(k)
        ELSE LogUp(x, b, k + 1)

\* the k <= k0 with b^k <= x < b^(k+1), for rationals 0 < x < b^(k0+1)
RECURSIVE LogDown(_, _, _)
LogDown(x, b, k) ==
    LET pw == Div(One, IntPow(b, -k))
    IN  IF IsUnrep(pw) THEN Unrep
        ELSE IF Le(pw, x) THEN Z(k)
        ELSE LogDown(x, b, k - 1)

\* Math.floor(Math.log(x) / Math.log(b)) for a rational b > 1
FloorLog(x, b) ==
    IF IsNaN(x) \/ IsUnrep(x) THEN x
    ELSE IF x = PosInf THEN PosInf
    ELSE IF Sign(x) < 0 THEN NaN
    ELSE IF IsZero(x) THEN NegInf
    ELSE IF x[3] # 0 THEN Unrep
    ELSE IF Ge(x, One) THEN LogUp(x, b, 0)
    ELSE LogDown(x, b, -1)

----------------------------------------------------------------------------
(* Function values.  A JavaScript function object is a record: k names    *)
(* the function (a property of Easing) or the factory that returned it, f  *)
(* is the function it closes over and p the numbers it closes over.        *)

NoFn == "-"

\* a property of Easing (or of make), as a function value
Named(name) == [k |-> name, f |-> NoFn, p |-> <<>>]

Closure(kind, f, p) == [k |-> kind, f |-> f, p |-> p]

----------------------------------------------------------------------------
(* src/src/animation/easing.jsx *)

RECURSIVE CallJ(_, _)

\* ease(f, start, end)
EasingHelpers_ease(f, start, end) == Closure("ease", f, <<start, end>>)

\* t => start + f(t) * (end - start)
EasingHelpers_ease_fn(c, x) ==
    Add(c.p[1], Mul(CallJ(c.f, x), Sub(c.p[2], c.p[1])))

\* toEaseOut(f)
EasingHelpers_toEaseOut(f) == Closure("toEaseOut", f, <<>>)

\* toEaseOut without the reversal of time
EasingHelpers_toEaseOut_fn_noReverse(c, x) == Sub(One, CallJ(c.f, x))

\* t => 1 - f(1 - t)
EasingHelpers_toEaseOut_fn(c, x) == Sub(One, CallJ(c.f, Sub(One, x)))

\* toEaseInOut(f)
EasingHelpers_toEaseInOut(f) == Closure("toEaseInOut", f, <<>>)

\* toEaseInOut whose second half mirrors f(2t - 1) instead of f(2 - 2t)
EasingHelpers_toEaseInOut_fn_shifted(c, x) ==
    Mul(Dec(5, 1), IF Lt(x, Dec(5, 1))
                   THEN CallJ(c.f, Mul(Two, x))
                   ELSE Sub(Two, CallJ(c.f, Sub(Mul(Two, x), One))))

\* t => 0.5 * (t < 0.5 ? f(2 * t) : (2 - f(2 - 2 * t)))
EasingHelpers_toEaseInOut_fn(c, x) ==
    Mul(Dec(5, 1), IF Lt(x, Dec(5, 1))
                   THEN CallJ(c.f, Mul(Two, x))
                   ELSE Sub(Two, CallJ(c.f, Sub(Two, Mul(Two, x)))))

\* squeeze(f, x1, x2)
EasingHelpers_squeeze(f, x1, x2) == Closure("squeeze", f, <<x1, x2>>)

\* squeeze without the shift of the numerator by f(x1)
EasingHelpers_squeeze_fn_noShift(c, x) ==
    LET x1 == c.p[1]
        x2 == c.p[2]
    IN  Div(CallJ(c.f, Add(x1, Mul(x, Sub(x2, x1)))),
            Sub(CallJ(c.f, x2), CallJ(c.f, x1)))

\* t => (f(x1 + t*(x2-x1)) - f(x1)) / (f(x2) - f(x1))
EasingHelpers_squeeze_fn(c, x) ==
    LET x1 == c.p[1]
        x2 == c.p[2]
    IN  Div(Sub(CallJ(c.f, Add(x1, Mul(x, Sub(x2, x1)))), CallJ(c.f, x1)),
            Sub(CallJ(c.f, x2), CallJ(c.f, x1)))

Easing_linear(x) == x

Easing_quadIn(x) == Mul(x, x)

Easing_quadOut(x) == CallJ(EasingHelpers_toEaseOut(Named("quadIn")), x)

Easing_quadInOut(x) == CallJ(EasingHelpers_toEaseInOut(Named("quadIn")), x)

Easing_cubicIn(x) == Math_pow(x, Z(3))

Easing_cubicOut(x) == CallJ(EasingHelpers_toEaseOut(Named("cubicIn")), x)

Easing_cubicInOut(x) == CallJ(EasingHelpers_toEaseInOut(Named("cubicIn")), x)

\* makePolyIn(exponent)
Easing_makePolyIn(exponent) == Closure("makePolyIn", NoFn, <<exponent>>)

\* t => Math.pow(t, exponent)
Easing_makePolyIn_fn(c, x) == Math_pow(x, c.p[1])

Easing_sinIn(x) == Sub(One, Math_cos(Div(Mul(x, Math_PI), Two)))

Easing_sinOut(x) == CallJ(EasingHelpers_toEaseOut(Named("sinIn")), x)

Easing_sinInOut(x) == CallJ(EasingHelpers_toEaseInOut(Named("sinIn")), x)

Easing_expIn(x) == Math_pow(Two, Mul(Z(10), Sub(x, One)))

Easing_expOut(x) == CallJ(EasingHelpers_toEaseOut(Named("expIn")), x)

Easing_expInOut(x) == CallJ(EasingHelpers_toEaseInOut(Named("expIn")), x)

\* circleIn with the operands of the subtraction under the root swapped
Easing_circleIn_swapped(x) == Sub(One, Math_sqrt(Sub(Mul(x, x), One)))

Easing_circleIn(x) == Sub(One, Math_sqrt(Sub(One, Mul(x, x))))

Easing_circleOut(x) == CallJ(EasingHelpers_toEaseOut(Named("circleIn")), x)

Easing_circleInOut(x) == CallJ(EasingHelpers_toEaseInOut(Named("circleIn")), x)

\* makeBackIn(amplitude)
Easing_makeBackIn(amplitude) == Closure("makeBackIn", NoFn, <<amplitude>>)

\* makeBackIn's function with amplitude * x - amplitude as its last factor
Easing_makeBackIn_fn_noOne(c, x) ==
    LET amplitude == c.p[1]
    IN  Mul(Mul(x, x), Sub(Mul(amplitude, x), amplitude))

\* x => x*x*((1+amplitude)*x-amplitude)
Easing_makeBackIn_fn(c, x) ==
    LET amplitude == c.p[1]
    IN  Mul(Mul(x, x), Sub(Mul(Add(One, amplitude), x), amplitude))

Easing_backIn(x) == CallJ(Easing_makeBackIn(Dec(170158, 5)), x)

Easing_backOut(x) == CallJ(EasingHelpers_toEaseOut(Named("backIn")), x)

Easing_backInOut(x) == CallJ(EasingHelpers_toEaseInOut(Named("backIn")), x)

\* makeElasticIn(springiness, numberOfSwings): s and n = Math.round(...)
Easing_makeElasticIn(springiness, numberOfSwings) ==
    Closure("makeElasticIn", NoFn, <<springiness, Math_round(numberOfSwings)>>)

\* x => (exp(s*x)-1.0)/(exp(s)-1.0)*(sin((PI * 2.0 * n + PI * 0.5) * x))
Easing_makeElasticIn_fn(c, x) ==
    LET s == c.p[1]
        n == c.p[2]
    IN  Mul(Div(Sub(Math_exp(Mul(s, x)), One), Sub(Math_exp(s), One)),
            Math_sin(Mul(Add(Mul(Mul(Math_PI, Two), n),
                             Mul(Math_PI, Dec(5, 1))), x)))

Easing_elasticIn(x) ==
    Mul(Math_sin(Div(Mul(Mul(Z(13), x), Math_PI), Two)),
        Math_pow(Two, Mul(Z(10), Sub(x, One))))

Easing_elasticOut(x) == CallJ(EasingHelpers_toEaseOut(Named("elasticIn")), x)

Easing_elasticInOut(x) == CallJ(EasingHelpers_toEaseInOut(Named("elasticIn")), x)

\* makeBounceIn with the whole last bounce in sumOfUnits
Easing_makeBounceIn_wholeLast(bounces, bounciness0) ==
    LET bounciness == IF Le(bounciness0, One) THEN Dec(1001, 3) ELSE bounciness0
        pow == Math_pow(bounciness, bounces)
        oneMinusBounciness == Sub(One, bounciness)
        sumOfUnits == Add(Div(Sub(One, pow), oneMinusBounciness), pow)
    IN  Closure("makeBounceIn", NoFn,
                <<bounces, bounciness, oneMinusBounciness, sumOfUnits>>)

\* makeBounceIn(bounces, bounciness): the closure keeps bounces, the clamped
\* bounciness, oneMinusBounciness and sumOfUnits
Easing_makeBounceIn(bounces, bounciness0) ==
    LET bounciness == IF Le(bounciness0, One) THEN Dec(1001, 3) ELSE bounciness0
        pow == Math_pow(bounciness, bounces)
        oneMinusBounciness == Sub(One, bounciness)
        sumOfUnits == Add(Div(Sub(One, pow), oneMinusBounciness),
                          Mul(pow, Dec(5, 1)))
    IN  Closure("makeBounceIn", NoFn,
                <<bounces, bounciness, oneMinusBounciness, sumOfUnits>>)

\* the locals of the function makeBounceIn returns, for the argument x: the
\* segment the logarithm selects and the quadratic fitted to it
Easing_makeBounceIn_locals(c, x) ==
    LET bounces == c.p[1]
        bounciness == c.p[2]
        oneMinusBounciness == c.p[3]
        sumOfUnits == c.p[4]
        unitAtT == Mul(x, sumOfUnits)
        \* Math.floor(Math.log(-unitAtT * (1.0-bounciness) + 1.0) / Math.log(bounciness))
        start == FloorLog(Add(Mul(Neg(unitAtT), Sub(One, bounciness)), One),
                          bounciness)
        end == Add(start, One)
        startTime == Div(Sub(One, Math_pow(bounciness, start)),
                         Mul(oneMinusBounciness, sumOfUnits))
        endTime == Div(Sub(One, Math_pow(bounciness, end)),
                       Mul(oneMinusBounciness, sumOfUnits))
        midTime == Mul(Add(startTime, endTime), Dec(5, 1))
    IN  [start |-> start,
         midTime |-> midTime,
         timeRelativeToPeak |-> Sub(x, midTime),
         radius |-> Sub(midTime, startTime),
         amplitude |-> Math_pow(Div(One, bounciness), Sub(bounces, start))]

\* the function makeBounceIn returns
Easing_makeBounceIn_fn(c, x) ==
    LET l == Easing_makeBounceIn_locals(c, x)
    IN  Mul(Mul(Div(Neg(l.amplitude), Mul(l.radius, l.radius)),
                Sub(l.timeRelativeToPeak, l.radius)),
            Add(l.timeRelativeToPeak, l.radius))

Easing_bounceIn(x) == CallJ(EasingHelpers_toEaseOut(Named("bounceOut")), x)

\* the four quadratics of bounceOut, in the order of its comparisons
Easing_bounceOut_seg(i, x) ==
    CASE i = 1 -> Mul(Mul(Dec(75625, 4), x), x)
      [] i = 2 -> LET u == Sub(x, Div(Dec(15, 1), Dec(275, 2)))
                  IN  Add(Mul(Mul(Dec(75625, 4), u), u), Dec(75, 2))
      [] i = 3 -> LET u == Sub(x, Div(Dec(225, 2), Dec(275, 2)))
                  IN  Add(Mul(Mul(Dec(75625, 4), u), u), Dec(9375, 4))
      [] i = 4 -> LET u == Sub(x, Div(Dec(2625, 3), Dec(275, 2)))
                  IN  Add(Mul(Mul(Dec(75625, 4), u), u), Dec(984375, 6))

\* the thresholds of bounceOut: 1 / 2.75, 2 / 2.75, 2.5 / 2.75
Easing_bounceOut_edge(i) ==
    CASE i = 1 -> Div(One, Dec(275, 2))
      [] i = 2 -> Div(Two, Dec(275, 2))
      [] i = 3 -> Div(Dec(25, 1), Dec(275, 2))

Easing_bounceOut(x) ==
    IF Lt(x, Easing_bounceOut_edge(1)) THEN Easing_bounceOut_seg(1, x)
    ELSE IF Lt(x, Easing_bounceOut_edge(2)) THEN Easing_bounceOut_seg(2, x)
    ELSE IF Lt(x, Easing_bounceOut_edge(3)) THEN Easing_bounceOut_seg(3, x)
    ELSE Easing_bounceOut_seg(4, x)

Easing_bounceInOut(x) == CallJ(EasingHelpers_toEaseInOut(Named("bounceIn")), x)

\* f(x) for a function value f of easing.jsx
CallJ(c, x) ==
    CASE c.k = "ease" -> EasingHelpers_ease_fn(c, x)
      [] c.k = "toEaseOut" -> EasingHelpers_toEaseOut_fn(c, x)
      [] c.k = "toEaseInOut" -> EasingHelpers_toEaseInOut_fn(c, x)
      [] c.k = "squeeze" -> EasingHelpers_squeeze_fn(c, x)
      [] c.k = "makePolyIn" -> Easing_makePolyIn_fn(c, x)
      [] c.k = "makeBackIn" -> Easing_makeBackIn_fn(c, x)
      [] c.k = "makeElasticIn" -> Easing_makeElasticIn_fn(c, x)
      [] c.k = "makeBounceIn" -> Easing_makeBounceIn_fn(c, x)
      [] c.k = "linear" -> Easing_linear(x)
      [] c.k = "quadIn" -> Easing_quadIn(x)
      [] c.k = "quadOut" -> Easing_quadOut(x)
      [] c.k = "quadInOut" -> Easing_quadInOut(x)
      [] c.k = "cubicIn" -> Easing_cubicIn(x)
      [] c.k = "cubicOut" -> Easing_cubicOut(x)
      [] c.k = "cubicInOut" -> Easing_cubicInOut(x)
      [] c.k = "sinIn" -> Easing_sinIn(x)
      [] c.k = "sinOut" -> Easing_sinOut(x)
      [] c.k = "sinInOut" -> Easing_sinInOut(x)
      [] c.k = "expIn" -> Easing_expIn(x)
      [] c.k = "expOut" -> Easing_expOut(x)
      [] c.k = "expInOut" -> Easing_expInOut(x)
      [] c.k = "circleIn" -> Easing_circleIn(x)
      [] c.k = "circleOut" -> Easing_circleOut(x)
      [] c.k = "circleInOut" -> Easing_circleInOut(x)
      [] c.k = "backIn" -> Easing_backIn(x)
      [] c.k = "backOut" -> Easing_backOut(x)
      [] c.k = "backInOut" -> Easing_backInOut(x)
      [] c.k = "elasticIn" -> Easing_elasticIn(x)
      [] c.k = "elasticOut" -> Easing_elasticOut(x)
      [] c.k = "elasticInOut" -> Easing_elasticInOut(x)
      [] c.k = "bounceIn" -> Easing_bounceIn(x)
      [] c.k = "bounceOut" -> Easing_bounceOut(x)
      [] c.k = "bounceInOut" -> Easing_bounceInOut(x)

----------------------------------------------------------------------------
(* src/unnamed/part_000 *)

RECURSIVE CallP(_, _)

\* ease(f, start, end)
P_helpers_ease(f, start, end) == Closure("ease", f, <<start, end>>)

\* function(t) { return start + f(t) * (end - start); }
P_helpers_ease_fn(c, x) ==
    Add(c.p[1], Mul(CallP(c.f, x), Sub(c.p[2], c.p[1])))

\* toEaseOut(f)
P_helpers_toEaseOut(f) == Closure("toEaseOut", f, <<>>)

\* function(t) { return 1 - f(1 - t); }
P_helpers_toEaseOut_fn(c, x) == Sub(One, CallP(c.f, Sub(One, x)))

\* toEaseInOut(f)
P_helpers_toEaseInOut(f) == Closure("toEaseInOut", f, <<>>)

\* toEaseInOut whose second half is 1 - f(2 - 2t)
P_helpers_toEaseInOut_fn_oneMinus(c, x) ==
    Mul(Dec(5, 1), IF Lt(x, Dec(5, 1))
                   THEN CallP(c.f, Mul(Two, x))
                   ELSE Sub(One, CallP(c.f, Sub(Two, Mul(Two, x)))))

\* function(t) { return 0.5 * (t < 0.5 ? f(2 * t) : (2 - f(2 - 2 * t))); }
P_helpers_toEaseInOut_fn(c, x) ==
    Mul(Dec(5, 1), IF Lt(x, Dec(5, 1))
                   THEN CallP(c.f, Mul(Two, x))
                   ELSE Sub(Two, CallP(c.f, Sub(Two, Mul(Two, x)))))

\* squeeze that keeps f(x2) as y1
P_helpers_squeeze_wrongEnd(f, x1, x2) ==
    Closure("squeeze", f, <<x1, x2, CallP(f, x2)>>)

\* squeeze(f, x1, x2): var y1 = f(x1) is evaluated here, once
P_helpers_squeeze(f, x1, x2) == Closure("squeeze", f, <<x1, x2, CallP(f, x1)>>)

\* function(t) { return (f(x1 + t*(x2-x1)) - y1) / (f(x2) - y1); }
P_helpers_squeeze_fn(c, x) ==
    LET x1 == c.p[1]
        x2 == c.p[2]
        y1 == c.p[3]
    IN  Div(Sub(CallP(c.f, Add(x1, Mul(x, Sub(x2, x1)))), y1),
            Sub(CallP(c.f, x2), y1))

\* advance(startTime, animDuration, easing)
P_helpers_advance(startTime, animDuration, easing) ==
    Closure("advance", easing, <<startTime, animDuration>>)

\* advance's function assigning finished = (percentage === 1)
P_helpers_advance_fn_assigns(c, oldAnim, dt0, now0) ==
    LET startTime == c.p[1]
        animDuration == c.p[2]
        percentage0 == Div(Sub(now0, startTime), animDuration)
        percentage == IF Ge(percentage0, One) THEN One ELSE percentage0
        newValue == CallP(c.f, percentage)
    IN  [value |-> newValue,
         velocity |-> Div(Sub(newValue, oldAnim.value), dt0),
         finished |-> StrictEq(percentage, One)]

\* function(oldAnim, dt, now): the animation object after the call
P_helpers_advance_fn(c, oldAnim, dt0, now0) ==
    LET startTime == c.p[1]
        animDuration == c.p[2]
        percentage0 == Div(Sub(now0, startTime), animDuration)
        percentage == IF Ge(percentage0, One) THEN One ELSE percentage0
        newValue == CallP(c.f, percentage)
    IN  [value |-> newValue,
         velocity |-> Div(Sub(newValue, oldAnim.value), dt0),
         finished |-> IF StrictEq(percentage, One) THEN TRUE
                      ELSE oldAnim.finished]

P_Easing_linear(x) == x

P_Easing_quadIn(x) == Mul(x, x)

P_Easing_quadOut(x) == CallP(P_helpers_toEaseOut(Named("quadIn")), x)

P_Easing_quadInOut(x) == CallP(P_helpers_toEaseInOut(Named("quadIn")), x)

P_Easing_cubicIn(x) == Math_pow(x, Z(3))

P_Easing_cubicOut(x) == CallP(P_helpers_toEaseOut(Named("cubicIn")), x)

P_Easing_cubicInOut(x) == CallP(P_helpers_toEaseInOut(Named("cubicIn")), x)

P_Easing_sinIn(x) == Sub(One, Math_cos(Div(Mul(x, Math_PI), Two)))

P_Easing_sinOut(x) == CallP(P_helpers_toEaseOut(Named("sinIn")), x)

P_Easing_sinInOut(x) == CallP(P_helpers_toEaseInOut(Named("sinIn")), x)

P_Easing_expIn(x) == Math_pow(Two, Mul(Z(10), Sub(x, One)))

P_Easing_expOut(x) == CallP(P_helpers_toEaseOut(Named("expIn")), x)

P_Easing_expInOut(x) == CallP(P_helpers_toEaseInOut(Named("expIn")), x)

P_Easing_circleIn(x) == Sub(One, Math_sqrt(Sub(One, Mul(x, x))))

P_Easing_circleOut(x) == CallP(P_helpers_toEaseOut(Named("circleIn")), x)

P_Easing_circleInOut(x) == CallP(P_helpers_toEaseInOut(Named("circleIn")), x)

\* make.polyIn(exponent)
P_make_polyIn(exponent) == Closure("make.polyIn", NoFn, <<exponent>>)

\* function(t) { return Math.pow(t, exponent); }
P_make_polyIn_fn(c, x) == Math_pow(x, c.p[1])

\* make.backIn(amplitude)
P_make_backIn(amplitude) == Closure("make.backIn", NoFn, <<amplitude>>)

\* function(x) { return x*x*((1+amplitude)*x-amplitude); }
P_make_backIn_fn(c, x) ==
    LET amplitude == c.p[1]
    IN  Mul(Mul(x, x), Sub(Mul(Add(One, amplitude), x), amplitude))

\* make.elasticIn(springiness, numberOfSwings): s and n = Math.round(...)
P_make_elasticIn(springiness, numberOfSwings) ==
    Closure("make.elasticIn", NoFn, <<springiness, Math_round(numberOfSwings)>>)

\* (exp(s*x)-1.0)/(exp(s)-1.0)*(sin((PI * 2.0 * n + PI * 0.5) * x))
P_make_elasticIn_fn(c, x) ==
    LET s == c.p[1]
        n == c.p[2]
    IN  Mul(Div(Sub(Math_exp(Mul(s, x)), One), Sub(Math_exp(s), One)),
            Math_sin(Mul(Add(Mul(Mul(Math_PI, Two), n),
                             Mul(Math_PI, Dec(5, 1))), x)))

P_Easing_backIn(x) == CallP(P_make_backIn(Dec(170158, 5)), x)

P_Easing_backOut(x) == CallP(P_helpers_toEaseOut(Named("backIn")), x)

P_Easing_backInOut(x) == CallP(P_helpers_toEaseInOut(Named("backIn")), x)

P_Easing_elasticIn(x) ==
    Mul(Math_sin(Div(Mul(Mul(Z(13), x), Math_PI), Two)),
        Math_pow(Two, Mul(Z(10), Sub(x, One))))

P_Easing_elasticOut(x) == CallP(P_helpers_toEaseOut(Named("elasticIn")), x)

P_Easing_elasticInOut(x) == CallP(P_helpers_toEaseInOut(Named("elasticIn")), x)

P_Easing_bounceIn(x) == CallP(P_helpers_toEaseOut(Named("bounceOut")), x)

\* the quadratics of bounceOut with the third one centred at 2.5 / 2.75
P_Easing_bounceOut_seg_offCentre(i, x) ==
    CASE i = 1 -> Mul(Mul(Dec(75625, 4), x), x)
      [] i = 2 -> LET u == Sub(x, Div(Dec(15, 1), Dec(275, 2)))
                  IN  Add(Mul(Mul(Dec(75625, 4), u), u), Dec(75, 2))
      [] i = 3 -> LET u == Sub(x, Div(Dec(25, 1), Dec(275, 2)))
                  IN  Add(Mul(Mul(Dec(75625, 4), u), u), Dec(9375, 4))
      [] i = 4 -> LET u == Sub(x, Div(Dec(2625, 3), Dec(275, 2)))
                  IN  Add(Mul(Mul(Dec(75625, 4), u), u), Dec(984375, 6))

\* the four quadratics of bounceOut, in the order of its comparisons
P_Easing_bounceOut_seg(i, x) ==
    CASE i = 1 -> Mul(Mul(Dec(75625, 4), x), x)
      [] i = 2 -> LET u == Sub(x, Div(Dec(15, 1), Dec(275, 2)))
                  IN  Add(Mul(Mul(Dec(75625, 4), u), u), Dec(75, 2))
      [] i = 3 -> LET u == Sub(x, Div(Dec(225, 2), Dec(275, 2)))
                  IN  Add(Mul(Mul(Dec(75625, 4), u), u), Dec(9375, 4))
      [] i = 4 -> LET u == Sub(x, Div(Dec(2625, 3), Dec(275, 2)))
                  IN  Add(Mul(Mul(Dec(75625, 4), u), u), Dec(984375, 6))

\* the thresholds of bounceOut: 1 / 2.75, 2 / 2.75, 2.5 / 2.75
P_Easing_bounceOut_edge(i) ==
    CASE i = 1 -> Div(One, Dec(275, 2))
      [] i = 2 -> Div(Two, Dec(275, 2))
      [] i = 3 -> Div(Dec(25, 1), Dec(275, 2))

P_Easing_bounceOut(x) ==
    IF Lt(x, P_Easing_bounceOut_edge(1)) THEN P_Easing_bounceOut_seg(1, x)
    ELSE IF Lt(x, P_Easing_bounceOut_edge(2)) THEN P_Easing_bounceOut_seg(2, x)
    ELSE IF Lt(x, P_Easing_bounceOut_edge(3)) THEN P_Easing_bounceOut_seg(3, x)
    ELSE P_Easing_bounceOut_seg(4, x)

P_Easing_bounceInOut(x) == CallP(P_helpers_toEaseInOut(Named("bounceIn")), x)

\* f(x) for a function value f of part_000
CallP(c, x) ==
    CASE c.k = "ease" -> P_helpers_ease_fn(c, x)
      [] c.k = "toEaseOut" -> P_helpers_toEaseOut_fn(c, x)
      [] c.k = "toEaseInOut" -> P_helpers_toEaseInOut_fn(c, x)
      [] c.k = "squeeze" -> P_helpers_squeeze_fn(c, x)
      [] c.k = "make.polyIn" -> P_make_polyIn_fn(c, x)
      [] c.k = "make.backIn" -> P_make_backIn_fn(c, x)
      [] c.k = "make.elasticIn" -> P_make_elasticIn_fn(c, x)
      [] c.k = "linear" -> P_Easing_linear(x)
      [] c.k = "quadIn" -> P_Easing_quadIn(x)
      [] c.k = "quadOut" -> P_Easing_quadOut(x)
      [] c.k = "quadInOut" -> P_Easing_quadInOut(x)
      [] c.k = "cubicIn" -> P_Easing_cubicIn(x)
      [] c.k = "cubicOut" -> P_Easing_cubicOut(x)
      [] c.k = "cubicInOut" -> P_Easing_cubicInOut(x)
      [] c.k = "sinIn" -> P_Easing_sinIn(x)
      [] c.k = "sinOut" -> P_Easing_sinOut(x)
      [] c.k = "sinInOut" -> P_Easing_sinInOut(x)
      [] c.k = "expIn" -> P_Easing_expIn(x)
      [] c.k = "expOut" -> P_Easing_expOut(x)
      [] c.k = "expInOut" -> P_Easing_expInOut(x)
      [] c.k = "circleIn" -> P_Easing_circleIn(x)
      [] c.k = "circleOut" -> P_Easing_circleOut(x)
      [] c.k = "circleInOut" -> P_Easing_circleInOut(x)
      [] c.k = "backIn" -> P_Easing_backIn(x)
      [] c.k = "backOut" -> P_Easing_backOut(x)
      [] c.k = "backInOut" -> P_Easing_backInOut(x)
      [] c.k = "elasticIn" -> P_Easing_elasticIn(x)
      [] c.k = "elasticOut" -> P_Easing_elasticOut(x)
      [] c.k = "elasticInOut" -> P_Easing_elasticInOut(x)
      [] c.k = "bounceIn" -> P_Easing_bounceIn(x)
      [] c.k = "bounceOut" -> P_Easing_bounceOut(x)
      [] c.k = "bounceInOut" -> P_Easing_bounceInOut(x)

----------------------------------------------------------------------------
(* The callers' inputs *)

\* arguments range over [-MaxT, MaxT]
MaxT == 2

\* the animation clock ranges over -2 .. MaxNow
MaxNow == 5

\* animDuration ranges over 1 .. MaxDuration
MaxDuration == 3

Families == {"quad", "cubic", "sin", "exp", "circle", "back", "elastic", "bounce"}

InName == [quad |-> "quadIn", cubic |-> "cubicIn", sin |-> "sinIn",
           exp |-> "expIn", circle |-> "circleIn", back |-> "backIn",
           elastic |-> "elasticIn", bounce |-> "bounceIn"]

OutName == [quad |-> "quadOut", cubic |-> "cubicOut", sin |-> "sinOut",
            exp |-> "expOut", circle |-> "circleOut", back |-> "backOut",
            elastic |-> "elasticOut", bounce |-> "bounceOut"]

InOutName == [quad |-> "quadInOut", cubic |-> "cubicInOut", sin |-> "sinInOut",
              exp |-> "expInOut", circle |-> "circleInOut",
              back |-> "backInOut", elastic |-> "elasticInOut",
              bounce |-> "bounceInOut"]

\* the easing functions both files define as properties of Easing
EasingNames ==
    {"linear"} \cup {InName[x] : x \in Families}
               \cup {OutName[x] : x \in Families}
               \cup {InOutName[x] : x \in Families}

\* the grid of arguments: elevenths and their halves (the thresholds of
\* bounceOut), tenths (where 2^(10(t-1)) is rational), thirds (where the
\* cosine is rational), fifths (where the circle's square root is rational)
TGrid ==
    {Q(k, 22) : k \in (-22 * MaxT) .. (22 * MaxT)}
        \cup {Q(k, 10) : k \in (-10 * MaxT) .. (10 * MaxT)}
        \cup {Q(k, 3) : k \in (-3 * MaxT) .. (3 * MaxT)}

\* (start, end) pairs for ease
EaseRanges == {<<Zero, One>>, <<One, Zero>>, <<Two, Z(5)>>, <<Z(-1), Half>>}

\* (x1, x2) pairs for squeeze
SqueezeRanges ==
    {<<Zero, One>>, <<Zero, Two>>, <<One, Two>>, <<Half, One>>,
     <<One, Zero>>, <<Z(-1), One>>, <<Zero, Zero>>}

PolyExponents == {Zero, One, Two, Z(3), Z(-1), Z(-2), Half, Q(3, 2)}

BackAmplitudes == {Zero, One, Dec(170158, 5), Z(3)}

Springiness == {Zero, Z(7)}

Swings == {Z(3), Dec(26, 1), Dec(25, 1), Dec(24, 1)}

\* the range of bounces and bounciness the factory is specified for, and
\* two values of bounciness that it clamps
BounceCounts == {Z(n) : n \in 2 .. 6}

Bounciness == {Dec(15, 1), Two, Dec(25, 1), Z(3)}

ClampedBounces == {<<Zero, One>>, <<One, Half>>}

BounceArgs == {Zero, Half, One, Z(-1), Two}

----------------------------------------------------------------------------
(* The state machine: a caller of the library, seen through both files.    *)
(* fJ and fP are the function the caller holds, as easing.jsx and as       *)
(* part_000 build it; arg, rJ and rP are the argument and the results of   *)
(* its call.  step is the function advance returned and anim the animation *)
(* object it updates, with the dt and now of the last call.                *)

Undefined == Named("undefined")

NewAnim == [value |-> Zero, velocity |-> Zero, finished |-> FALSE]

Init ==
    /\ fJ = Undefined
    /\ fP = Undefined
    /\ arg = Zero
    /\ rJ = Zero
    /\ rP = Zero
    /\ called = FALSE
    /\ step = Undefined
    /\ anim = NewAnim
    /\ now = Zero
    /\ dt = One

\* the caller reads Easing.<name>
GetEasing ==
    \E name \in EasingNames :
        /\ fJ = Undefined
        /\ fJ' = Named(name)
        /\ fP' = Named(name)
        /\ UNCHANGED <<arg, rJ, rP, called, step, anim, now, dt>>

\* the caller calls ease(f, start, end)
Ease ==
    \E name \in EasingNames, r \in EaseRanges :
        /\ fJ = Undefined
        /\ fJ' = EasingHelpers_ease(Named(name), r[1], r[2])
        /\ fP' = P_helpers_ease(Named(name), r[1], r[2])
        /\ UNCHANGED <<arg, rJ, rP, called, step, anim, now, dt>>

\* the caller calls toEaseOut(f)
ToEaseOut ==
    \E name \in EasingNames :
        /\ fJ = Undefined
        /\ fJ' = EasingHelpers_toEaseOut(Named(name))
        /\ fP' = P_helpers_toEaseOut(Named(name))
        /\ UNCHANGED <<arg, rJ, rP, called, step, anim, now, dt>>

\* the caller calls toEaseInOut(f)
ToEaseInOut ==
    \E name \in EasingNames :
        /\ fJ = Undefined
        /\ fJ' = EasingHelpers_toEaseInOut(Named(name))
        /\ fP' = P_helpers_toEaseInOut(Named(name))
        /\ UNCHANGED <<arg, rJ, rP, called, step, anim, now, dt>>

\* the caller calls squeeze(f, x1, x2)
Squeeze ==
    \E name \in EasingNames, r \in SqueezeRanges :
        /\ fJ = Undefined
        /\ fJ' = EasingHelpers_squeeze(Named(name), r[1], r[2])
        /\ fP' = P_helpers_squeeze(Named(name), r[1], r[2])
        /\ UNCHANGED <<arg, rJ, rP, called, step, anim, now, dt>>

\* the caller calls makePolyIn(exponent) / make.polyIn(exponent)
MakePolyIn ==
    \E e \in PolyExponents :
        /\ fJ = Undefined
        /\ fJ' = Easing_makePolyIn(e)
        /\ fP' = P_make_polyIn(e)
        /\ UNCHANGED <<arg, rJ, rP, called, step, anim, now, dt>>

\* the caller calls makeBackIn(amplitude) / make.backIn(amplitude)
MakeBackIn ==
    \E a \in BackAmplitudes :
        /\ fJ = Undefined
        /\ fJ' = Easing_makeBackIn(a)
        /\ fP' = P_make_backIn(a)
        /\ UNCHANGED <<arg, rJ, rP, called, step, anim, now, dt>>

\* the caller calls makeElasticIn(s, n) / make.elasticIn(s, n)
MakeElasticIn ==
    \E s \in Springiness, n \in Swings :
        /\ fJ = Undefined
        /\ fJ' = Easing_makeElasticIn(s, n)
        /\ fP' = P_make_elasticIn(s, n)
        /\ UNCHANGED <<arg, rJ, rP, called, step, anim, now, dt>>

\* the caller calls makeBounceIn(bounces, bounciness), which only
\* easing.jsx defines
MakeBounceIn ==
    \E b \in (BounceCounts \X Bounciness) \cup ClampedBounces :
        /\ fJ = Undefined
        /\ fJ' = Easing_makeBounceIn(b[1], b[2])
        /\ fP' = Undefined
        /\ UNCHANGED <<arg, rJ, rP, called, step, anim, now, dt>>

Args(c) == IF c.k = "makeBounceIn" THEN BounceArgs ELSE TGrid

\* the caller calls the function it holds
Invoke ==
    \E x \in Args(fJ) :
        /\ fJ # Undefined
        /\ ~called
        /\ arg' = x
        /\ rJ' = CallJ(fJ, x)
        /\ rP' = IF fP = Undefined THEN rP ELSE CallP(fP, x)
        /\ ~IsUnrep(rJ')
        /\ ~IsUnrep(rP')
        /\ called' = TRUE
        /\ UNCHANGED <<fJ, fP, step, anim, now, dt>>

Next ==
    \/ GetEasing
    \/ Ease
    \/ ToEaseOut
    \/ ToEaseInOut
    \/ Squeeze
    \/ MakePolyIn
    \/ MakeBackIn
    \/ MakeElasticIn
    \/ MakeBounceIn
    \/ Invoke

Spec == Init /\ [][Next]_vars

----------------------------------------------------------------------------
(* The animation loop of part_000: advance, and the calls of the function  *)
(* it returns on one animation object                                      *)

AnimEasings == {"linear", "quadIn", "circleIn", "bounceOut"}

StartTimes == {Zero, One}

Durations == {Z(d) : d \in 1 .. MaxDuration}

Clock == {Z(n) : n \in -2 .. MaxNow}

Deltas == {One, Half, Zero}

\* the caller calls advance(startTime, animDuration, easing)
Advance ==
    \E s \in StartTimes, d \in Durations, name \in AnimEasings :
        /\ step = Undefined
        /\ step' = P_helpers_advance(s, d, Named(name))
        /\ UNCHANGED <<fJ, fP, arg, rJ, rP, called, anim, now, dt>>

\* the caller calls step(anim, dt, now)
Step ==
    \E d \in Deltas, n \in Clock :
        /\ step # Undefined
        /\ dt' = d
        /\ now' = n
        /\ anim' = P_helpers_advance_fn(step, anim, d, n)
        /\ ~IsUnrep(anim'.value)
        /\ ~IsUnrep(anim'.velocity)
        /\ UNCHANGED <<fJ, fP, arg, rJ, rP, called, step>>

AnimNext ==
    \/ Advance
    \/ Step

AnimSpec == Init /\ [][AnimNext]_vars

----------------------------------------------------------------------------
(* Properties *)

InUnit(x) == Le(Zero, x) /\ Le(x, One)

FamilyOfOut(name) == CHOOSE x \in Families : OutName[x] = name

\* C1: for every family x and every t in [0,1], xOut(t) = 1 - xIn(1 - t),
\* in both files; this includes bounce, whose Out function is the primitive
\* one and whose In function is derived from it
C1_OutMirrorsIn ==
    (called /\ fJ.k \in {OutName[x] : x \in Families} /\ InUnit(arg)) =>
        LET x == FamilyOfOut(fJ.k)
        IN  /\ rJ = Sub(One, CallJ(Named(InName[x]), Sub(One, arg)))
            /\ rP = Sub(One, CallP(Named(InName[x]), Sub(One, arg)))

C1_Witness ==
    /\ called
    /\ fJ.k = "bounceOut"
    /\ arg = Q(9, 22)
    /\ rJ = Sub(One, CallJ(Named("bounceIn"), Q(13, 22)))
    /\ rJ = Q(57, 64)

\* C2 as stated: every function returns a finite number for every t and
\* every configuration, except a function squeeze returned for f(x1) = f(x2)
C2_OnlySqueezeNotFinite ==
    called =>
        \/ IsFinite(rJ)
        \/ /\ fJ.k = "squeeze"
           /\ CallJ(fJ.f, fJ.p[1]) = CallJ(fJ.f, fJ.p[2])

\* C2 as amended: every easing function (linear, and the In, Out and InOut
\* functions of the eight families) returns a finite number for every t in
\* [0,1]; circleIn(t) is NaN for |t| > 1, and the function
\* makeElasticIn(0, n) returns is NaN for every t
C2_FiniteOnUnitInterval ==
    called =>
        /\ (fJ.k \in EasingNames /\ InUnit(arg)) =>
               (IsFinite(rJ) /\ IsFinite(rP))
        /\ (fJ.k = "circleIn" /\ (Lt(One, arg) \/ Lt(arg, Z(-1)))) =>
               (IsNaN(rJ) /\ IsNaN(rP))
        /\ (fJ.k = "makeElasticIn" /\ fJ.p[1] = Zero) =>
               (IsNaN(rJ) /\ IsNaN(rP))

C2_Witness ==
    /\ called
    /\ fJ.k = "circleIn"
    /\ arg = Q(3, 2)
    /\ IsNaN(rJ)

C4_InOutMidpoint ==
    (called /\ arg = Half) =>
        /\ fJ.k \in {InOutName[x] : x \in Families} =>
               (rJ = Half /\ rP = Half)
        /\ (fJ.k = "toEaseInOut" /\ CallJ(fJ.f, One) = One) =>
               /\ rJ = Half
               /\ rP = Half
               /\ Mul(Dec(5, 1), CallJ(fJ.f, Mul(Two, arg))) = rJ
               /\ Mul(Dec(5, 1), Sub(Two, CallJ(fJ.f, Sub(Two, Mul(Two, arg))))) = rJ

C4_Witness ==
    /\ called
    /\ fJ.k = "toEaseInOut"
    /\ fJ.f.k = "bounceIn"
    /\ CallJ(fJ.f, One) = One
    /\ arg = Half
    /\ rJ = Half

\* C5: every standard In function other than expIn is 0 at 0 and 1 at 1
C5_InEnds ==
    (called /\ fJ.k \in {InName[x] : x \in Families \ {"exp"}}) =>
        /\ arg = Zero => (rJ = Zero /\ rP = Zero)
        /\ arg = One => (rJ = One /\ rP = One)

C5_Witness ==
    /\ called
    /\ fJ.k = "elasticIn"
    /\ arg = One
    /\ rJ = One

\* C6: at each threshold of bounceOut the quadratic of the segment that
\* ends there and the quadratic of the segment that starts there, which the
\* half-open comparisons select, have the same value
C6_BounceOutContinuous ==
    \A i \in 1 .. 3 :
        (called /\ fJ.k = "bounceOut" /\ arg = Easing_bounceOut_edge(i)) =>
            /\ rJ = Easing_bounceOut_seg(i + 1, arg)
            /\ rJ = Easing_bounceOut_seg(i, arg)
            /\ rP = P_Easing_bounceOut_seg(i + 1, arg)
            /\ rP = P_Easing_bounceOut_seg(i, arg)

C6_Witness ==
    /\ called
    /\ fJ.k = "bounceOut"
    /\ arg = Easing_bounceOut_edge(3)
    /\ arg = Q(10, 11)
    /\ rJ = One

\* C7: for bounces in 2..6 and bounciness in [1.5, 3.0] the function
\* makeBounceIn returns is 0 at 0 and 1 at 1, where the lookup selects the
\* last segment (start = bounces), whose peak is at time 1 with amplitude 1
C7_MakeBounceInEnds ==
    (called /\ fJ.k = "makeBounceIn" /\ fJ.p[1] \in BounceCounts
        /\ Le(Dec(15, 1), fJ.p[2]) /\ Le(fJ.p[2], Z(3))) =>
        /\ arg = Zero => rJ = Zero
        /\ arg = One =>
               /\ rJ = One
               /\ Easing_makeBounceIn_locals(fJ, arg).start = fJ.p[1]
               /\ Easing_makeBounceIn_locals(fJ, arg).midTime = One
               /\ Easing_makeBounceIn_locals(fJ, arg).amplitude = One

C7_Witness ==
    /\ called
    /\ fJ.k = "makeBounceIn"
    /\ fJ.p[1] = Z(6)
    /\ fJ.p[2] = Dec(25, 1)
    /\ arg = One
    /\ rJ = One

\* C8: toEaseInOut(linear)(t) = t for every t, on both branches
C8_LinearFixedPoint ==
    (called /\ fJ.k = "toEaseInOut" /\ fJ.f.k = "linear") =>
        (rJ = arg /\ rP = arg)

C8_Witness ==
    /\ called
    /\ fJ.k = "toEaseInOut"
    /\ fJ.f.k = "linear"
    /\ Ge(arg, Half)
    /\ arg = Dec(7, 1)
    /\ rJ = arg

\* C9: for every operation both files define, the two files build functions
\* over the same numbers, which return the same value for the same argument
C9_SameResults ==
    (fJ # Undefined /\ fP # Undefined) =>
        /\ \A i \in 1 .. Len(fJ.p) : fP.p[i] = fJ.p[i]
        /\ called => rP = rJ

C9_Witness ==
    /\ called
    /\ fJ.k = "squeeze"
    /\ fJ.f.k = "backIn"
    /\ fJ.p = <<Half, One>>
    /\ arg = Two
    /\ rP = rJ
    /\ IsFinite(rJ)

\* C10: with animDuration > 0, a call of the function advance returned
\* sets finished exactly when now - startTime >= animDuration, and then
\* value is easing(1); otherwise value is easing of the percentage, which is
\* not clamped below 0; and no call sets finished back to false
C10_FinishedLatches ==
    [][(step # Undefined /\ step' = step) =>
          LET startTime == step.p[1]
              animDuration == step.p[2]
              reached == Ge(Sub(now', startTime), animDuration)
          IN  /\ reached =>
                     (anim'.finished /\ anim'.value = CallP(step.f, One))
              /\ ~reached =>
                     /\ anim'.finished = anim.finished
                     /\ anim'.value =
                            CallP(step.f, Div(Sub(now', startTime), animDuration))
              /\ anim.finished => anim'.finished]_vars

C10_Witness ==
    /\ step # Undefined
    /\ step.f.k = "quadIn"
    /\ anim.finished
    /\ Lt(now, step.p[1])
    /\ anim.value # CallP(step.f, One)
    /\ dt # Zero

====
